---- MODULE Spec2Model ----
(***************************************************************************)
(* A model of the rcl_like_wrapper / lwrcl runtime:                         *)
(*   - Executor (add_node, remove_node, stop, spin) and the handle-based    *)
(*     spin_some / stop_spin / destroy_node it drives                       *)
(*     (libraries/src/rcl_like_wrapper.cpp);                                *)
(*   - signal_handler, RCLWNode (spin, stop), Rate (sleep) and              *)
(*     rcl_like_wrapper_init of the same file;                              *)
(*   - SubscriberListener::on_data_available and                            *)
(*     SubscriptionCallback::invoke (lwrcl/include/subscriber.hpp).         *)
(* Node and Channel are declared in headers that are not part of the        *)
(* sources at hand; what is needed of them is modelled from their           *)
(* documented contract.                                                     *)
(***************************************************************************)
EXTENDS Integers, Sequences, FiniteSets, TLC

(* ------------------------------ bounds --------------------------------- *)
\* number of node objects the caller has created
NumNodes == 2
\* longest node list the model lets add_node build
MaxNodes == 2
\* most closures pending in a node's channel when spin_some is entered
MaxPending == 1

\* the reserved "invalid / absent" handle
NullHandle == 0

Handles == 1..NumNodes

\* owner values of a std::mutex
Free == "free"
SpinThread == "spin"

(* ------------------------------ state ---------------------------------- *)
VARIABLES
  \* Executor
  nodes_,            \* std::vector<intptr_t> nodes_
  running_,          \* bool running_
  mutex_,            \* owner of Executor::mutex_
  \* process-wide
  global_stop_flag,  \* std::atomic_bool global_stop_flag
  \* Node objects behind the handles
  live,              \* handles whose Node has not been destroyed
  stop_req,          \* nodes on which Node::stop_spin() has been called
  \* the thread inside Executor::spin()
  spin_pc,           \* its position
  idx,               \* position of the range-for iterator in nodes_ (1-based)
  todo,              \* closures Node::spin_some() still has to invoke
  \* history (not program state)
  cycle_nodes,       \* nodes_ when the current cycle took the lock
  cycle_calls,       \* handles spin_some() was called with in this cycle
  removed,           \* nodes for which remove_node returned and that were not added since
  added,             \* per node, the add_node calls made for it since its last remove_node
  stop_called,       \* Executor::stop() was called after spin() was invoked
  stale_access,      \* a destroyed Node was dereferenced
  null_deref,        \* a null Node pointer was dereferenced
  crashed,           \* the process died of an invalid access
  \* handle-based API
  message_types,     \* MessageTypes message_types: name -> type descriptor
  endpoints,         \* publishers, subscriptions and timers each Node owns
  api_last,          \* the last API call: operation, handle, type name, type map
  api_ret,           \* what it returned (0 for void)
  api_touched,       \* the handles it dereferenced
  api_changed,       \* whether it changed the state of any object
  api_calls,         \* number of API calls made
  \* one Subscription: SubscriberListener and its SubscriptionCallback
  message_ptr_buffer_, \* std::vector<std::shared_ptr<T>> message_ptr_buffer_
  channel_,          \* closures pending in the node's channel (all the same pointer)
  n_delivered,       \* samples taken so far; the k-th sample is message k
  listener_pc,       \* the transport thread inside on_data_available
  l_end,             \* the vector end that thread read
  consumer_pc,       \* the spin thread inside Node::spin_some / invoke
  c_end,             \* the vector end that thread read
  dispatched,        \* per dispatched closure, what the user callback was given
  cb_failed,         \* a user callback has thrown
  escaped,           \* an exception left SubscriptionCallback::invoke
  \* signal_handler on the threads of the process
  global_mutex,      \* owner of std::mutex global_mutex
  sig_frames,        \* per thread, the signal_handler activations on its stack
  n_signals,         \* signals delivered so far
  sig_aborted,       \* an exception left a signal handler: std::terminate
  \* one RCLWNode and the thread its spin() starts
  node_ptr_,         \* intptr_t node_ptr_
  rclw_node_stop_flag_, \* bool rclw_node_stop_flag_
  rclw_pc,           \* the thread inside RCLWNode::spin()
  thread_pc,         \* std::thread spin_thread
  node_stop_requested, \* Node::stop_spin() has been called on the node
  n_spins,           \* calls of RCLWNode::spin() so far
  \* one Rate; time is a whole number of milliseconds
  period_,           \* std::chrono::milliseconds period_
  next_time_,        \* std::chrono::steady_clock::time_point next_time_
  clock,             \* std::chrono::steady_clock::now()
  rate_pc,           \* the thread inside Rate::sleep()
  now,               \* the local "now" of the sleep() in progress
  \* history (not program state)
  ctor_time,         \* the clock when the Rate was constructed
  call_next,         \* next_time_ when the sleep() in progress was called
  loop_iter          \* parity of the catch-up iterations made so far

execVars == <<nodes_, running_, mutex_, global_stop_flag, live, stop_req,
              spin_pc, idx, todo, cycle_nodes, cycle_calls, removed, added,
              stop_called, stale_access, null_deref, crashed>>

apiVars == <<message_types, endpoints, api_last, api_ret, api_touched, api_changed,
             api_calls>>

subVars == <<message_ptr_buffer_, channel_, n_delivered, listener_pc, l_end,
             consumer_pc, c_end, dispatched, cb_failed, escaped>>

sigVars == <<global_mutex, sig_frames, n_signals, sig_aborted>>

rclwVars == <<node_ptr_, rclw_node_stop_flag_, rclw_pc, thread_pc,
              node_stop_requested, n_spins>>

rateVars == <<period_, next_time_, clock, rate_pc, now, ctor_time, call_next,
              loop_iter>>

vars == <<execVars, apiVars, subVars, sigVars, rclwVars, rateVars>>

Range(s) == {s[i] : i \in 1..Len(s)}

(* --------------------------- Node (contract) --------------------------- *)
\* Dereferencing the Node behind handle h (reinterpret_cast<Node *>(h)->...).
\* A live node is simply used. A destroyed or null one is an invalid access:
\* the process may die there or carry on.
NodeAccess(hs) ==
  /\ stale_access' = (stale_access \/ \E h \in hs : h # NullHandle /\ h \notin live)
  /\ null_deref' = (null_deref \/ NullHandle \in hs)
  /\ crashed' \in (IF hs \subseteq live THEN {FALSE} ELSE BOOLEAN)

NoNodeAccess == UNCHANGED <<stale_access, null_deref, crashed>>

(* ------------------------------ Executor ------------------------------- *)
\* Executor::Executor(): running_(false), empty node list; the caller has
\* created NumNodes nodes.
ExecInit ==
  /\ nodes_ = << >>
  /\ running_ = FALSE
  /\ mutex_ = Free
  /\ global_stop_flag = FALSE
  /\ live = Handles
  /\ stop_req = {}
  /\ spin_pc = "idle"
  /\ idx = 1
  /\ todo = 0
  /\ cycle_nodes = << >>
  /\ cycle_calls = << >>
  /\ removed = {}
  /\ added = [n \in Handles |-> 0]
  /\ stop_called = FALSE
  /\ stale_access = FALSE
  /\ null_deref = FALSE
  /\ crashed = FALSE

\* std::lock_guard<std::mutex> lock(mutex_) taken by a thread other than the
\* spinning one: the call blocks until the mutex is free.
LockAvailable == mutex_ = Free

\* a push_back that skips a node already in the list
PushBackUnique(s, n) == IF n \in Range(s) THEN s ELSE Append(s, n)

\* nodes_.push_back(node_ptr)
PushBack(s, n) == Append(s, n)

\* Executor::add_node(node_ptr)
add_node(n) ==
  /\ ~crashed
  /\ LockAvailable
  /\ IF n # NullHandle
       THEN /\ Len(nodes_) < MaxNodes
            /\ nodes_' = PushBack(nodes_, n)
            /\ removed' = removed \ {n}
            /\ added' = [added EXCEPT ![n] = @ + 1]
       ELSE UNCHANGED <<nodes_, removed, added>>
  /\ UNCHANGED <<running_, mutex_, global_stop_flag, live, stop_req, spin_pc, idx,
                 todo, cycle_nodes, cycle_calls, stop_called>>
  /\ NoNodeAccess

\* add_node called from a user thread
AddNode(n) ==
  /\ add_node(n)
  /\ UNCHANGED <<apiVars, subVars, sigVars, rclwVars, rateVars>>

\* a remove that erases only the first occurrence
EraseFirst(s, n) ==
  IF n \in Range(s)
    THEN LET k == CHOOSE i \in 1..Len(s) : s[i] = n /\ \A j \in 1..(i - 1) : s[j] # n
         IN  SubSeq(s, 1, k - 1) \o SubSeq(s, k + 1, Len(s))
    ELSE s

\* nodes_.erase(std::remove(begin, end, node_ptr), end): every occurrence goes,
\* the others keep their order
EraseAll(s, n) == SelectSeq(s, LAMBDA x : x # n)

\* Executor::remove_node(node_ptr), called from a user thread
RemoveNode(n) ==
  /\ ~crashed
  /\ LockAvailable
  /\ nodes_' = EraseAll(nodes_, n)
  /\ removed' = removed \cup ({n} \cap Handles)
  /\ added' = [h \in Handles |-> IF h = n THEN 0 ELSE added[h]]
  /\ UNCHANGED <<running_, mutex_, global_stop_flag, live, stop_req, spin_pc, idx,
                 todo, cycle_nodes, cycle_calls, stop_called>>
  /\ NoNodeAccess
  /\ UNCHANGED <<apiVars, subVars, sigVars, rclwVars, rateVars>>

\* the nodes Executor::stop() calls stop_spin() on
StopTargets == {n \in Range(nodes_) : n # NullHandle}

\* a test that lets stop() act only on an executor that is not running
StopGuardInverted == ~running_

\* if (running_)
StopGuard == running_

\* Executor::stop() (also run by ~Executor()), called from a user thread
Stop ==
  /\ ~crashed
  /\ LockAvailable
  /\ stop_called' = (stop_called \/ spin_pc \notin {"idle", "returned"})
  /\ IF StopGuard
       THEN /\ running_' = FALSE
            /\ stop_req' = stop_req \cup StopTargets
            /\ NodeAccess(StopTargets)
       ELSE /\ UNCHANGED <<running_, stop_req>>
            /\ NoNodeAccess
  /\ UNCHANGED <<nodes_, mutex_, global_stop_flag, live, spin_pc, idx, todo,
                 cycle_nodes, cycle_calls, removed, added>>
  /\ UNCHANGED <<apiVars, subVars, sigVars, rclwVars, rateVars>>

\* a handler that flips the flag
SignalStoreToggle == ~global_stop_flag

\* global_stop_flag = true: the value signal_handler stores
SignalStore == TRUE

\* signal_handler(SIGINT / SIGTERM) run from entry to return: it takes
\* global_mutex, stores the flag and releases the mutex
Signal ==
  /\ ~crashed
  /\ global_mutex = Free
  /\ global_stop_flag' = SignalStore
  /\ UNCHANGED <<nodes_, running_, mutex_, live, stop_req, spin_pc, idx, todo,
                 cycle_nodes, cycle_calls, removed, added, stop_called>>
  /\ NoNodeAccess
  /\ UNCHANGED <<apiVars, subVars, sigVars, rclwVars, rateVars>>

\* destroy_node(h) on a live node (RCLWNode::~RCLWNode); the executor is not told
DestroyNode(h) ==
  /\ ~crashed
  /\ h \in live
  /\ live' = live \ {h}
  /\ UNCHANGED <<nodes_, running_, mutex_, global_stop_flag, stop_req, spin_pc, idx,
                 todo, cycle_nodes, cycle_calls, removed, added, stop_called>>
  /\ NoNodeAccess
  /\ UNCHANGED <<apiVars, subVars, sigVars, rclwVars, rateVars>>

(* --------------------------- Executor::spin ---------------------------- *)
\* the call is made; no statement of spin() has run yet
SpinInvoke ==
  /\ ~crashed
  /\ spin_pc = "idle"
  /\ spin_pc' = "start"
  /\ UNCHANGED <<nodes_, running_, mutex_, global_stop_flag, live, stop_req, idx,
                 todo, cycle_nodes, cycle_calls, removed, added, stop_called>>
  /\ NoNodeAccess
  /\ UNCHANGED <<apiVars, subVars, sigVars, rclwVars, rateVars>>

\* running_ = true;
SpinSetRunning ==
  /\ ~crashed
  /\ spin_pc = "start"
  /\ running_' = TRUE
  /\ spin_pc' = "while"
  /\ UNCHANGED <<nodes_, mutex_, global_stop_flag, live, stop_req, idx, todo,
                 cycle_nodes, cycle_calls, removed, added, stop_called>>
  /\ NoNodeAccess
  /\ UNCHANGED <<apiVars, subVars, sigVars, rclwVars, rateVars>>

\* while (running_ && !global_stop_flag.load())
SpinWhile ==
  /\ ~crashed
  /\ spin_pc = "while"
  /\ spin_pc' = IF running_ /\ ~global_stop_flag THEN "lock" ELSE "returned"
  /\ UNCHANGED <<nodes_, running_, mutex_, global_stop_flag, live, stop_req, idx,
                 todo, cycle_nodes, cycle_calls, removed, added, stop_called>>
  /\ NoNodeAccess
  /\ UNCHANGED <<apiVars, subVars, sigVars, rclwVars, rateVars>>

\* std::lock_guard<std::mutex> lock(mutex_); the range-for begins
SpinLock ==
  /\ ~crashed
  /\ spin_pc = "lock"
  /\ mutex_ = Free
  /\ mutex_' = SpinThread
  /\ idx' = 1
  /\ cycle_nodes' = nodes_
  /\ cycle_calls' = << >>
  /\ spin_pc' = "for"
  /\ UNCHANGED <<nodes_, running_, global_stop_flag, live, stop_req, todo, removed, added,
                 stop_called>>
  /\ NoNodeAccess
  /\ UNCHANGED <<apiVars, subVars, sigVars, rclwVars, rateVars>>

\* a loop that walks the list from the back
NodeAtReversed(i) == nodes_[Len(nodes_) + 1 - i]

\* the element the range-for visits at step i
NodeAt(i) == nodes_[i]

\* for (auto node_ptr : nodes_): the next element, or the end of the block,
\* where the lock_guard releases the mutex.
\* spin_some(node_ptr) checks the handle for 0 and calls node->spin_some(),
\* which takes the closures pending in the node's channel.
SpinFor ==
  /\ ~crashed
  /\ spin_pc = "for"
  /\ IF idx <= Len(nodes_)
       THEN IF NodeAt(idx) = NullHandle
              THEN /\ idx' = idx + 1
                   /\ UNCHANGED <<mutex_, spin_pc, todo, cycle_calls>>
                   /\ NoNodeAccess
              ELSE /\ cycle_calls' = Append(cycle_calls, NodeAt(idx))
                   /\ NodeAccess({NodeAt(idx)})
                   /\ spin_pc' = "spin_some"
                   /\ todo' \in 0..MaxPending
                   /\ UNCHANGED <<mutex_, idx>>
       ELSE /\ mutex_' = Free
            /\ spin_pc' = "sleep"
            /\ UNCHANGED <<idx, todo, cycle_calls>>
            /\ NoNodeAccess
  /\ UNCHANGED <<nodes_, running_, global_stop_flag, live, stop_req, cycle_nodes,
                 removed, added, stop_called>>
  /\ UNCHANGED <<apiVars, subVars, sigVars, rclwVars, rateVars>>

\* Node::spin_some(): invoke the next pending closure, or return to the loop
SpinSomeStep ==
  /\ ~crashed
  /\ spin_pc = "spin_some"
  /\ IF todo > 0
       THEN /\ spin_pc' = "callback"
            /\ todo' = todo - 1
            /\ UNCHANGED idx
       ELSE /\ spin_pc' = "for"
            /\ idx' = idx + 1
            /\ UNCHANGED todo
  /\ UNCHANGED <<nodes_, running_, mutex_, global_stop_flag, live, stop_req,
                 cycle_nodes, cycle_calls, removed, added, stop_called>>
  /\ NoNodeAccess
  /\ UNCHANGED <<apiVars, subVars, sigVars, rclwVars, rateVars>>

\* the user callback returns
CallbackReturn ==
  /\ ~crashed
  /\ spin_pc = "callback"
  /\ spin_pc' = "spin_some"
  /\ UNCHANGED <<nodes_, running_, mutex_, global_stop_flag, live, stop_req, idx,
                 todo, cycle_nodes, cycle_calls, removed, added, stop_called>>
  /\ NoNodeAccess
  /\ UNCHANGED <<apiVars, subVars, sigVars, rclwVars, rateVars>>

\* The user callback calls add_node / remove_node / stop of the executor that is
\* running it. The lock_guard of that call locks mutex_, which this thread
\* already owns: undefined for std::mutex. The thread blocks for ever, or
\* lock() throws std::system_error and the callback ends with it (the call has
\* had no effect).
CallbackCallsExecutor ==
  /\ ~crashed
  /\ spin_pc = "callback"
  /\ mutex_ = SpinThread
  /\ spin_pc' \in {"cb_blocked", "spin_some"}
  /\ UNCHANGED <<nodes_, running_, mutex_, global_stop_flag, live, stop_req, idx,
                 todo, cycle_nodes, cycle_calls, removed, added, stop_called>>
  /\ NoNodeAccess
  /\ UNCHANGED <<apiVars, subVars, sigVars, rclwVars, rateVars>>

\* std::this_thread::sleep_for(1us); back to the loop condition
SpinSleep ==
  /\ ~crashed
  /\ spin_pc = "sleep"
  /\ spin_pc' = "while"
  /\ cycle_nodes' = << >>
  /\ cycle_calls' = << >>
  /\ UNCHANGED <<nodes_, running_, mutex_, global_stop_flag, live, stop_req, idx,
                 todo, removed, added, stop_called>>
  /\ NoNodeAccess
  /\ UNCHANGED <<apiVars, subVars, sigVars, rclwVars, rateVars>>

(* --------------------------- handle-based API -------------------------- *)
\* bound: API calls in one run
MaxApiCalls == 3
\* bound: most publishers / subscriptions / timers a node is given
MaxEndpoints == 1

TypeNames == {"Ping", "Pong"}
Descriptors == {"d1", "d2"}
NoName == "-"

\* MessageTypes message_types: empty at start. Every node exists, owns nothing.
ApiInit ==
  /\ message_types = << >>
  /\ endpoints = [h \in Handles |-> 0]
  /\ api_last = [op |-> "none", h |-> NullHandle, name |-> NoName, types |-> << >>]
  /\ api_ret = 0
  /\ api_touched = {}
  /\ api_changed = FALSE
  /\ api_calls = 0

\* what an API call can change
apiState == <<live, stop_req, endpoints, message_types, nodes_>>

\* bookkeeping of one call
ApiCall(op, h, name, types, ret, touched) ==
  /\ ~crashed
  /\ api_calls < MaxApiCalls
  /\ api_calls' = api_calls + 1
  /\ api_last' = [op |-> op, h |-> h, name |-> name, types |-> types]
  /\ api_ret' = ret
  /\ api_touched' = touched

\* bookkeeping of a call that is given no type map
ApiRecord(op, h, name, ret, touched) == ApiCall(op, h, name, << >>, ret, touched)

ApiEffect == api_changed' = (apiState' # apiState)

ApiRest == UNCHANGED <<nodes_, running_, mutex_, global_stop_flag, spin_pc, idx, todo,
                       cycle_nodes, cycle_calls, removed, added, stop_called, subVars,
                       sigVars, rclwVars, rateVars>>

\* create_node(domain_id): new Node; its address is one no live node has
CreateNode(h) ==
  /\ h \in Handles \ live
  /\ live' = live \cup {h}
  /\ endpoints' = [endpoints EXCEPT ![h] = 0]
  /\ stop_req' = stop_req \ {h}
  /\ ApiRecord("create_node", NullHandle, NoName, h, {})
  /\ NoNodeAccess
  /\ UNCHANGED message_types
  /\ ApiRest /\ ApiEffect

\* destroy_node(node_ptr): node->destroy(), whatever node_ptr is
ApiDestroyNode(h) ==
  /\ ApiRecord("destroy_node", h, NoName, 0, {h})
  /\ NodeAccess({h})
  /\ live' = live \ {h}
  /\ endpoints' = [x \in Handles |-> IF x = h /\ h \in live THEN 0 ELSE endpoints[x]]
  /\ stop_req' = IF h \in live THEN stop_req \ {h} ELSE stop_req
  /\ UNCHANGED message_types
  /\ ApiRest /\ ApiEffect

\* if (!node_ptr) { log; return; }
HandleRejected(h) == h = NullHandle

\* spin / spin_once / spin_some (node_ptr): the null check, then the Node method
ApiSpinLike(op, h) ==
  /\ op \in {"spin", "spin_once", "spin_some"}
  /\ IF HandleRejected(h)
       THEN /\ ApiRecord(op, h, NoName, 0, {})
            /\ NoNodeAccess
       ELSE /\ ApiRecord(op, h, NoName, 0, {h})
            /\ NodeAccess({h})
  /\ UNCHANGED <<live, stop_req, endpoints, message_types>>
  /\ ApiRest /\ ApiEffect

\* stop_spin(node_ptr)
ApiStopSpin(h) ==
  /\ IF HandleRejected(h)
       THEN /\ ApiRecord("stop_spin", h, NoName, 0, {})
            /\ NoNodeAccess
            /\ UNCHANGED stop_req
       ELSE /\ ApiRecord("stop_spin", h, NoName, 0, {h})
            /\ NodeAccess({h})
            /\ stop_req' = IF h \in live THEN stop_req \cup {h} ELSE stop_req
  /\ UNCHANGED <<live, endpoints, message_types>>
  /\ ApiRest /\ ApiEffect

\* a lookup that finds every name
TypeRegisteredAlways(name) == TRUE

\* message_types.find(message_type_name) != message_types.end()
TypeRegistered(name) == name \in DOMAIN message_types

\* node->create_publisher / create_subscription / create_timer on node h:
\* the node makes the endpoint and registers it with the transport, or fails
\* and returns null
NodeCreate(op, h, name) ==
  /\ NodeAccess({h})
  /\ \/ /\ h \in live
        /\ endpoints[h] < MaxEndpoints
        /\ endpoints' = [endpoints EXCEPT ![h] = @ + 1]
        /\ ApiRecord(op, h, name, endpoints[h] + 1, {h})
     \/ /\ UNCHANGED endpoints
        /\ ApiRecord(op, h, name, 0, {h})

\* create_publisher / create_subscription (node_ptr, message_type_name, ...)
ApiCreateTyped(op, h, name) ==
  /\ op \in {"create_publisher", "create_subscription"}
  /\ IF HandleRejected(h) \/ ~TypeRegistered(name)
       THEN /\ ApiRecord(op, h, name, 0, {})
            /\ NoNodeAccess
            /\ UNCHANGED endpoints
       ELSE NodeCreate(op, h, name)
  /\ UNCHANGED <<live, stop_req, message_types>>
  /\ ApiRest /\ ApiEffect

\* create_timer(node_ptr, period, callback)
ApiCreateTimer(h) ==
  /\ IF HandleRejected(h)
       THEN /\ ApiRecord("create_timer", h, NoName, 0, {})
            /\ NoNodeAccess
            /\ UNCHANGED endpoints
       ELSE NodeCreate("create_timer", h, NoName)
  /\ UNCHANGED <<live, stop_req, message_types>>
  /\ ApiRest /\ ApiEffect

\* publish / get_subscriber_count (publisher_ptr), get_publisher_count
\* (subscriber_ptr): the null check, then the endpoint's method; a count is
\* whatever the transport last reported
ApiEndpointOp(op, p) ==
  /\ op \in {"publish", "get_subscriber_count", "get_publisher_count"}
  /\ IF HandleRejected(p)
       THEN ApiRecord(op, p, NoName, 0, {})
       ELSE \E count \in 0..1 :
              ApiRecord(op, p, NoName, IF op = "publish" THEN 0 ELSE count, {p})
  /\ NoNodeAccess
  /\ UNCHANGED <<live, stop_req, endpoints, message_types>>
  /\ ApiRest /\ ApiEffect

\* a registration that assigns every given name, registered or not
RegisteredOverwriting(types) ==
  [n \in (DOMAIN message_types) \cup (DOMAIN types) |->
     IF n \in DOMAIN types THEN types[n] ELSE message_types[n]]

\* the registry after rcl_like_wrapper_init(types): a name not yet registered
\* is added, a registered one is left alone
Registered(types) ==
  [n \in (DOMAIN message_types) \cup (DOMAIN types) |->
     IF n \in DOMAIN message_types THEN message_types[n] ELSE types[n]]

\* rcl_like_wrapper_init(types)
ApiInitTypes(types) ==
  /\ message_types' = Registered(types)
  /\ ApiCall("rcl_like_wrapper_init", NullHandle, NoName, types, 0, {})
  /\ NoNodeAccess
  /\ UNCHANGED <<live, stop_req, endpoints>>
  /\ ApiRest /\ ApiEffect

\* Executor::add_node(node_ptr) as one more call that takes a handle
ApiAddNode(n) ==
  /\ add_node(n)
  /\ ApiRecord("add_node", n, NoName, 0, {})
  /\ UNCHANGED <<endpoints, message_types, subVars, sigVars, rclwVars, rateVars>>
  /\ ApiEffect

ApiNext ==
  \/ \E h \in Handles : CreateNode(h)
  \/ \E n \in {NullHandle} \cup Handles : ApiAddNode(n)
  \/ \E h \in {NullHandle} \cup Handles : ApiDestroyNode(h)
  \/ \E h \in {NullHandle} \cup Handles, op \in {"spin", "spin_once", "spin_some"} :
       ApiSpinLike(op, h)
  \/ \E h \in {NullHandle} \cup Handles : ApiStopSpin(h)
  \/ \E h \in {NullHandle} \cup Handles, name \in TypeNames,
        op \in {"create_publisher", "create_subscription"} : ApiCreateTyped(op, h, name)
  \/ \E h \in {NullHandle} \cup Handles : ApiCreateTimer(h)
  \/ \E p \in 0..MaxEndpoints,
        op \in {"publish", "get_subscriber_count", "get_publisher_count"} :
       ApiEndpointOp(op, p)
  \/ \E S \in SUBSET TypeNames : \E types \in [S -> Descriptors] : ApiInitTypes(types)

(* ----------------------------- Subscription ---------------------------- *)
\* bound: samples the transport delivers
MaxMsgs == 3

\* what a closure that found the buffer empty gave the callback: nothing
NoMsg == <<"none", 0>>
\* a vector slot that holds no message (moved-from or never constructed)
Garbage == <<"garbage", 0>>

\* the k-th sample taken
Msg(k) == <<"msg", k>>

\* SubscriberListener(): empty buffer, nothing produced
SubInit ==
  /\ message_ptr_buffer_ = << >>
  /\ channel_ = 0
  /\ n_delivered = 0
  /\ listener_pc = "idle"
  /\ l_end = 0
  /\ consumer_pc = "idle"
  /\ c_end = 0
  /\ dispatched = << >>
  /\ cb_failed = FALSE
  /\ escaped = FALSE

\* on_data_available: take_next_sample returned RETCODE_OK with valid data
\* (otherwise the handler does nothing)
TakeSample ==
  /\ listener_pc = "idle"
  /\ n_delivered < MaxMsgs
  /\ n_delivered' = n_delivered + 1
  /\ listener_pc' = "emplace"
  /\ UNCHANGED <<message_ptr_buffer_, channel_, l_end, consumer_pc, c_end, dispatched,
                 cb_failed, escaped>>
  /\ UNCHANGED <<execVars, apiVars, sigVars, rclwVars, rateVars>>

\* message_ptr_buffer_.emplace_back(data_ptr) is not one step: the vector is
\* guarded by no lock. The thread reads the end of the vector ...
EmplaceRead ==
  /\ listener_pc = "emplace"
  /\ l_end' = Len(message_ptr_buffer_)
  /\ listener_pc' = "emplace_write"
  /\ UNCHANGED <<message_ptr_buffer_, channel_, n_delivered, consumer_pc, c_end,
                 dispatched, cb_failed, escaped>>
  /\ UNCHANGED <<execVars, apiVars, sigVars, rclwVars, rateVars>>

\* the vector once element m is constructed at slot end + 1 and the end is set
\* to end + 1; a slot below it that no longer holds a message is garbage
WrittenAt(buf, end, m) ==
  IF Len(buf) >= end
    THEN Append(SubSeq(buf, 1, end), m)
    ELSE Append(buf \o [i \in 1..(end - Len(buf)) |-> Garbage], m)

\* ... and then constructs the element there and moves the end
EmplaceWrite ==
  /\ listener_pc = "emplace_write"
  /\ message_ptr_buffer_' = WrittenAt(message_ptr_buffer_, l_end, Msg(n_delivered))
  /\ listener_pc' = "produce"
  /\ UNCHANGED <<channel_, n_delivered, l_end, consumer_pc, c_end, dispatched,
                 cb_failed, escaped>>
  /\ UNCHANGED <<execVars, apiVars, sigVars, rclwVars, rateVars>>

\* channel_.produce(subscription_callback_.get())
Produce ==
  /\ listener_pc = "produce"
  /\ channel_' = channel_ + 1
  /\ listener_pc' = "idle"
  /\ UNCHANGED <<message_ptr_buffer_, n_delivered, l_end, consumer_pc, c_end,
                 dispatched, cb_failed, escaped>>
  /\ UNCHANGED <<execVars, apiVars, sigVars, rclwVars, rateVars>>

\* Node::spin_some takes the next closure from the channel to invoke it
Consume ==
  /\ consumer_pc = "idle"
  /\ channel_ > 0
  /\ channel_' = channel_ - 1
  /\ consumer_pc' = "invoke"
  /\ UNCHANGED <<message_ptr_buffer_, n_delivered, listener_pc, l_end, c_end,
                 dispatched, cb_failed, escaped>>
  /\ UNCHANGED <<execVars, apiVars, sigVars, rclwVars, rateVars>>

\* an invoke() without the empty() test: the callback is given front() of
\* whatever the vector holds
InvokeBeginUnchecked ==
  /\ consumer_pc = "invoke"
  /\ dispatched' = Append(dispatched, IF message_ptr_buffer_ # << >>
                                        THEN message_ptr_buffer_[1] ELSE Garbage)
  /\ consumer_pc' = "callback"
  /\ UNCHANGED <<message_ptr_buffer_, channel_, n_delivered, listener_pc, l_end, c_end,
                 cb_failed, escaped>>
  /\ UNCHANGED <<execVars, apiVars, sigVars, rclwVars, rateVars>>

\* invoke(): if (!message_buffer_->empty()) callback_function_(front().get());
\* else the error is logged and nothing is invoked
InvokeBegin ==
  /\ consumer_pc = "invoke"
  /\ IF message_ptr_buffer_ # << >>
       THEN /\ dispatched' = Append(dispatched, message_ptr_buffer_[1])
            /\ consumer_pc' = "callback"
       ELSE /\ dispatched' = Append(dispatched, NoMsg)
            /\ consumer_pc' = "idle"
  /\ UNCHANGED <<message_ptr_buffer_, channel_, n_delivered, listener_pc, l_end, c_end,
                 cb_failed, escaped>>
  /\ UNCHANGED <<execVars, apiVars, sigVars, rclwVars, rateVars>>

\* the user callback returns; invoke goes on to erase(begin())
CallbackDone ==
  /\ consumer_pc = "callback"
  /\ consumer_pc' = "erase"
  /\ UNCHANGED <<message_ptr_buffer_, channel_, n_delivered, listener_pc, l_end, c_end,
                 dispatched, cb_failed, escaped>>
  /\ UNCHANGED <<execVars, apiVars, sigVars, rclwVars, rateVars>>

\* catch (const std::exception &) and catch (...): everything is caught
Caught == TRUE

\* the user callback throws: control leaves the try block before erase()
CallbackThrows ==
  /\ consumer_pc = "callback"
  /\ cb_failed' = TRUE
  /\ escaped' = (escaped \/ ~Caught)
  /\ consumer_pc' = "idle"
  /\ UNCHANGED <<message_ptr_buffer_, channel_, n_delivered, listener_pc, l_end, c_end,
                 dispatched>>
  /\ UNCHANGED <<execVars, apiVars, sigVars, rclwVars, rateVars>>

\* message_buffer_->erase(begin()), unguarded like emplace_back: the thread
\* reads the end of the vector ...
EraseRead ==
  /\ consumer_pc = "erase"
  /\ c_end' = Len(message_ptr_buffer_)
  /\ consumer_pc' = "erase_write"
  /\ UNCHANGED <<message_ptr_buffer_, channel_, n_delivered, listener_pc, l_end,
                 dispatched, cb_failed, escaped>>
  /\ UNCHANGED <<execVars, apiVars, sigVars, rclwVars, rateVars>>

\* the vector once slots 2..end are moved down by one and the end is set to end - 1
ErasedFront(buf, end) == SubSeq(buf, 2, end)

\* ... and then moves the elements down and the end back
EraseWrite ==
  /\ consumer_pc = "erase_write"
  /\ message_ptr_buffer_' = ErasedFront(message_ptr_buffer_, c_end)
  /\ consumer_pc' = "idle"
  /\ UNCHANGED <<channel_, n_delivered, listener_pc, l_end, c_end, dispatched,
                 cb_failed, escaped>>
  /\ UNCHANGED <<execVars, apiVars, sigVars, rclwVars, rateVars>>

SubNext ==
  \/ TakeSample
  \/ EmplaceRead
  \/ EmplaceWrite
  \/ Produce
  \/ Consume
  \/ InvokeBegin
  \/ CallbackDone
  \/ CallbackThrows
  \/ EraseRead
  \/ EraseWrite

(* --------------------------- signal_handler ---------------------------- *)
\* bound: signals delivered in one run
MaxSignals == 3

\* the threads of the process a signal can be delivered to
Threads == {"main", "worker"}
\* the signals register_signal_handler() installs signal_handler for
Signals == {"SIGINT", "SIGTERM"}

SigInit ==
  /\ global_mutex = Free
  /\ sig_frames = [t \in Threads |-> << >>]
  /\ n_signals = 0
  /\ sig_aborted = FALSE

\* everything of the executor but the flag
execRest == <<nodes_, running_, mutex_, live, stop_req, spin_pc, idx, todo,
              cycle_nodes, cycle_calls, removed, added, stop_called,
              stale_access, null_deref, crashed>>

SigRest == UNCHANGED <<execRest, apiVars, subVars, rclwVars, rateVars>>

\* the signals whose handler is on thread t's stack
Handling(t) == {sig_frames[t][i].sig : i \in 1..Len(sig_frames[t])}

\* thread t runs the handler activation on top of its stack
AtHandler(t, pc) ==
  /\ ~sig_aborted
  /\ sig_frames[t] # << >>
  /\ sig_frames[t][Len(sig_frames[t])].pc = pc

HandlerGoto(t, pc) ==
  sig_frames' = [sig_frames EXCEPT ![t][Len(sig_frames[t])].pc = pc]

\* SIGINT or SIGTERM is delivered to thread t: signal_handler is entered on top
\* of whatever t was running, a handler included. While a handler installed
\* with std::signal runs, its own signal is blocked on that thread; the other
\* signal is not.
Deliver(t, sig) ==
  /\ ~sig_aborted
  /\ n_signals < MaxSignals
  /\ sig \notin Handling(t)
  /\ n_signals' = n_signals + 1
  /\ sig_frames' = [sig_frames EXCEPT ![t] = Append(@, [sig |-> sig, pc |-> "lock"])]
  /\ UNCHANGED <<global_mutex, sig_aborted, global_stop_flag>>
  /\ SigRest

\* std::lock_guard<std::mutex> lock(global_mutex). The mutex is not recursive:
\* locking it on the thread that holds it is undefined; the call never returns,
\* or it throws and the exception leaves the handler.
HandlerLock(t) ==
  /\ AtHandler(t, "lock")
  /\ \/ /\ global_mutex = Free
        /\ global_mutex' = t
        /\ HandlerGoto(t, "store")
        /\ UNCHANGED sig_aborted
     \/ /\ global_mutex = t
        /\ \/ HandlerGoto(t, "deadlocked") /\ UNCHANGED sig_aborted
           \/ sig_aborted' = TRUE /\ UNCHANGED sig_frames
        /\ UNCHANGED global_mutex
  /\ UNCHANGED <<n_signals, global_stop_flag>>
  /\ SigRest

\* global_stop_flag = true
HandlerStore(t) ==
  /\ AtHandler(t, "store")
  /\ global_stop_flag' = SignalStore
  /\ HandlerGoto(t, "unlock")
  /\ UNCHANGED <<global_mutex, n_signals, sig_aborted>>
  /\ SigRest

\* the lock_guard releases the mutex and signal_handler returns
HandlerReturn(t) ==
  /\ AtHandler(t, "unlock")
  /\ global_mutex' = Free
  /\ sig_frames' = [sig_frames EXCEPT ![t] = SubSeq(@, 1, Len(@) - 1)]
  /\ UNCHANGED <<n_signals, sig_aborted, global_stop_flag>>
  /\ SigRest

SigNext ==
  \/ \E t \in Threads, sig \in Signals : Deliver(t, sig)
  \/ \E t \in Threads : HandlerLock(t)
  \/ \E t \in Threads : HandlerStore(t)
  \/ \E t \in Threads : HandlerReturn(t)

(* ------------------------------ RCLWNode ------------------------------- *)
\* bound: calls of RCLWNode::spin() in one run
MaxSpins == 2

\* no RCLWNode has been constructed yet
RclwInit ==
  /\ node_ptr_ = NullHandle
  /\ rclw_node_stop_flag_ = FALSE
  /\ rclw_pc = "unconstructed"
  /\ thread_pc = "none"
  /\ node_stop_requested = FALSE
  /\ n_spins = 0

RclwRest == UNCHANGED <<execVars, apiVars, subVars, sigVars, rateVars>>

\* RCLWNode::RCLWNode(domain_number): node_ptr_ = create_node(domain_number)
RclwConstruct(h) ==
  /\ rclw_pc = "unconstructed"
  /\ node_ptr_' = h
  /\ rclw_node_stop_flag_' = FALSE
  /\ rclw_pc' = "idle"
  /\ UNCHANGED <<thread_pc, node_stop_requested, n_spins>>
  /\ RclwRest

\* RCLWNode::stop(), from any thread
RclwStop ==
  /\ rclw_pc # "unconstructed"
  /\ rclw_node_stop_flag_' = TRUE
  /\ UNCHANGED <<node_ptr_, rclw_pc, thread_pc, node_stop_requested, n_spins>>
  /\ RclwRest

\* RCLWNode::spin() is called: if (node_ptr_ != 0), std::thread spin_thread(...)
RclwSpinCall ==
  /\ rclw_pc \in {"idle", "returned"}
  /\ n_spins < MaxSpins
  /\ n_spins' = n_spins + 1
  /\ IF node_ptr_ # NullHandle
       THEN rclw_pc' = "poll" /\ thread_pc' = "created"
       ELSE rclw_pc' = "returned" /\ UNCHANGED thread_pc
  /\ UNCHANGED <<node_ptr_, rclw_node_stop_flag_, node_stop_requested>>
  /\ RclwRest

\* a loop that only the process-wide flag ends
RclwLoopExitGlobalOnly == global_stop_flag

\* the negation of: !rclw_node_stop_flag_ && !global_stop_flag.load()
RclwLoopExit == rclw_node_stop_flag_ \/ global_stop_flag

\* while (...) sleep_for(10us): one test of the condition
RclwPoll ==
  /\ rclw_pc = "poll"
  /\ rclw_pc' = IF RclwLoopExit THEN "stop_spin" ELSE "poll"
  /\ UNCHANGED <<node_ptr_, rclw_node_stop_flag_, thread_pc, node_stop_requested,
                 n_spins>>
  /\ RclwRest

\* if (node_ptr_ != 0) stop_spin(node_ptr_)
RclwStopSpin ==
  /\ rclw_pc = "stop_spin"
  /\ node_stop_requested' = (node_stop_requested \/ node_ptr_ # NullHandle)
  /\ rclw_pc' = "join"
  /\ UNCHANGED <<node_ptr_, rclw_node_stop_flag_, thread_pc, n_spins>>
  /\ RclwRest

\* spin_thread.join() returns when the thread has ended; spin() returns
RclwJoin ==
  /\ rclw_pc = "join"
  /\ thread_pc = "done"
  /\ thread_pc' = "none"
  /\ rclw_pc' = "returned"
  /\ UNCHANGED <<node_ptr_, rclw_node_stop_flag_, node_stop_requested, n_spins>>
  /\ RclwRest

\* the new thread runs the lambda: rcl_like_wrapper::spin(node_ptr_), which
\* enters node->spin()
ThreadStart ==
  /\ thread_pc = "created"
  /\ thread_pc' = IF node_ptr_ # NullHandle THEN "spinning" ELSE "done"
  /\ UNCHANGED <<node_ptr_, rclw_node_stop_flag_, rclw_pc, node_stop_requested,
                 n_spins>>
  /\ RclwRest

\* Node::spin() returns once stop_spin() has been requested on the node,
\* whether the request came before or after it was entered
NodeSpinReturn ==
  /\ thread_pc = "spinning"
  /\ node_stop_requested
  /\ thread_pc' = "done"
  /\ UNCHANGED <<node_ptr_, rclw_node_stop_flag_, rclw_pc, node_stop_requested,
                 n_spins>>
  /\ RclwRest

\* the thread that called RCLWNode::spin()
RclwSpinSteps ==
  \/ RclwPoll
  \/ RclwStopSpin
  \/ RclwJoin

\* the thread RCLWNode::spin() started
RclwThreadSteps ==
  \/ ThreadStart
  \/ NodeSpinReturn

RclwNext ==
  \/ \E h \in Handles : RclwConstruct(h)
  \/ RclwStop
  \/ RclwSpinCall
  \/ Signal
  \/ RclwSpinSteps
  \/ RclwThreadSteps

(* --------------------------------- Rate -------------------------------- *)
\* bound: longest period, in milliseconds
MaxPeriod == 2
\* bound: latest time at which sleep() is called
MaxTime == 4

\* no Rate has been constructed yet
RateInit ==
  /\ period_ = 0
  /\ next_time_ = 0
  /\ clock = 0
  /\ rate_pc = "unconstructed"
  /\ now = 0
  /\ ctor_time = 0
  /\ call_next = 0
  /\ loop_iter = 0

RateRest == UNCHANGED <<execVars, apiVars, subVars, sigVars, rclwVars>>

\* Rate::Rate(period): period_(period), next_time_(steady_clock::now() + period)
RateConstruct(p) ==
  /\ rate_pc = "unconstructed"
  /\ period_' = p
  /\ next_time_' = clock + p
  /\ ctor_time' = clock
  /\ rate_pc' = "idle"
  /\ UNCHANGED <<clock, now, call_next, loop_iter>>
  /\ RateRest

\* a millisecond passes
Tick ==
  /\ clock < MaxTime
  /\ clock' = clock + 1
  /\ UNCHANGED <<period_, next_time_, rate_pc, now, ctor_time, call_next, loop_iter>>
  /\ RateRest

\* Rate::sleep() is called: auto now = steady_clock::now(); if (now < next_time_)
SleepCall ==
  /\ rate_pc = "idle"
  /\ clock <= MaxTime
  /\ now' = clock
  /\ call_next' = next_time_
  /\ rate_pc' = IF clock < next_time_ THEN "sleep_until" ELSE "loop"
  /\ UNCHANGED <<period_, next_time_, clock, ctor_time, loop_iter>>
  /\ RateRest

\* while (now >= next_time_) next_time_ += period_: one test of the condition
LoopStep ==
  /\ rate_pc = "loop"
  /\ IF now >= next_time_
       THEN /\ next_time_' = next_time_ + period_
            /\ loop_iter' = 1 - loop_iter
            /\ UNCHANGED rate_pc
       ELSE /\ rate_pc' = "sleep_until"
            /\ UNCHANGED <<next_time_, loop_iter>>
  /\ UNCHANGED <<period_, clock, now, ctor_time, call_next>>
  /\ RateRest

\* std::this_thread::sleep_until(next_time_) returns, at next_time_ or at once
\* if that instant has passed; sleep() returns
Wake ==
  /\ rate_pc = "sleep_until"
  /\ clock' = IF clock < next_time_ THEN next_time_ ELSE clock
  /\ rate_pc' = "idle"
  /\ UNCHANGED <<period_, next_time_, now, ctor_time, call_next, loop_iter>>
  /\ RateRest

\* the thread inside Rate::sleep()
RateSleepSteps ==
  \/ LoopStep
  \/ Wake

RateNext ==
  \/ \E p \in 0..MaxPeriod : RateConstruct(p)
  \/ Tick
  \/ SleepCall
  \/ RateSleepSteps

(* --------------------------- specifications ---------------------------- *)
Init == ExecInit /\ ApiInit /\ SubInit /\ SigInit /\ RclwInit /\ RateInit

SpinThreadStep ==
  \/ SpinSetRunning
  \/ SpinWhile
  \/ SpinLock
  \/ SpinFor
  \/ SpinSomeStep
  \/ CallbackReturn
  \/ SpinSleep

UserStep ==
  \/ \E n \in {NullHandle} \cup Handles : AddNode(n)
  \/ \E n \in {NullHandle} \cup Handles : RemoveNode(n)
  \/ Stop
  \/ Signal
  \/ SpinInvoke

\* the executor, its spinning thread, user threads and node destruction
Next ==
  \/ UserStep
  \/ SpinThreadStep
  \/ CallbackCallsExecutor
  \/ \E h \in Handles : DestroyNode(h)

Spec == Init /\ [][Next]_vars

\* the handle-based API called in any order
ApiSpec == Init /\ [][ApiNext]_vars

\* one subscription: the transport thread against the spinning thread
SubSpec == Init /\ [][SubNext]_vars

\* SIGINT and SIGTERM delivered to the threads of the process
SigSpec == Init /\ [][SigNext]_vars

\* One Rate and the thread calling sleep() on it, which is a running thread:
\* it takes its next step whenever it can.
RateSpec == Init /\ [][RateNext]_vars /\ WF_vars(RateSleepSteps)

\* One RCLWNode. The thread inside spin() and the thread it started are running
\* threads: each takes its next step whenever it can.
RclwSpec ==
  Init /\ [][RclwNext]_vars /\ WF_vars(RclwSpinSteps) /\ WF_vars(RclwThreadSteps)

\* The same without node destruction and without callbacks that call back into
\* the executor. The spinning thread is a running thread: it takes its next step
\* whenever it can.
NextPlain ==
  \/ UserStep
  \/ SpinThreadStep

FairSpec == Init /\ [][NextPlain]_vars /\ WF_vars(SpinThreadStep)

(* ------------------------------- claims -------------------------------- *)

\* C1: once Executor::stop() has been called at any point after spin() was
\* invoked (also before spin() ran its first statement), or once the
\* process-wide stop flag is true, spin() eventually returns.
C1_SpinStopsOnRequest ==
  ((stop_called \/ global_stop_flag) /\ spin_pc # "idle") ~> (spin_pc = "returned")

\* C2: in every cycle of Executor::spin(), spin_some() is called on every node
\* that was in the list when the cycle began, in list order: while the cycle
\* runs the calls made are the first nodes of that list, the list does not
\* change, and when the cycle ends the calls made are the whole list.
C2_CycleInListOrder ==
  /\ spin_pc \in {"for", "spin_some", "callback", "cb_blocked"} =>
       /\ nodes_ = cycle_nodes
       /\ Len(cycle_calls) = (IF spin_pc = "for" THEN idx - 1 ELSE idx)
       /\ Len(cycle_calls) <= Len(cycle_nodes)
       /\ cycle_calls = SubSeq(cycle_nodes, 1, Len(cycle_calls))
  /\ spin_pc = "sleep" => cycle_calls = cycle_nodes

\* a cycle over two different nodes has ended
C2_Witness ==
  /\ spin_pc = "sleep"
  /\ Len(cycle_calls) = 2
  /\ cycle_calls[1] # cycle_calls[2]

\* C3: once remove_node(n) has returned, spin_some() is not running on n,
\* unless n was added again.
C3_RemovedNotSpun ==
  spin_pc \in {"spin_some", "callback", "cb_blocked"} =>
    cycle_calls[Len(cycle_calls)] \notin removed

\* spin() is inside spin_some() of one node after another node was removed
C3_Witness ==
  /\ spin_pc = "spin_some"
  /\ removed # {}
  /\ running_

\* C4: add_node / remove_node / stop called while spin() runs never deadlock,
\* whichever thread calls, a callback run by the spin cycle included: no thread
\* waits for a mutex that only itself could release.
C4_NoDeadlock == ~(spin_pc = "cb_blocked" /\ mutex_ = SpinThread)

\* C5: while a callback dispatched by Executor::spin() is running, the
\* executor's mutex is free.
C5_MutexFreeInCallback == spin_pc = "callback" => mutex_ = Free

\* the k-th closure dispatched gave the callback the k-th message delivered
DispatchedInOrder == \A k \in 1..Len(dispatched) : dispatched[k] = Msg(k)

\* nothing is being delivered or dispatched and no closure is pending
Quiescent == listener_pc = "idle" /\ consumer_pc = "idle" /\ channel_ = 0

\* C6: with callbacks that do not fail, the callback is invoked once per
\* delivered message, in delivery order, and once every closure has been
\* dispatched every message was handed over and the buffer is empty.
C6_OncePerMessageInOrder ==
  ~cb_failed =>
    /\ DispatchedInOrder
    /\ Quiescent => /\ Len(dispatched) = n_delivered
                    /\ message_ptr_buffer_ = << >>

\* C7: a callback that throws does not leave invoke() and does not disturb the
\* other closures: each still gives the callback the message whose delivery
\* enqueued it, so no message is handed over twice and none stays undelivered.
C7_FailureLeavesOthersIntact ==
  /\ ~escaped
  /\ DispatchedInOrder
  /\ Quiescent => \A k \in 1..n_delivered : Msg(k) \in Range(dispatched)

\* the operations of the API that take a handle
HandleOps == {"destroy_node", "spin", "spin_once", "spin_some", "stop_spin",
              "create_publisher", "create_subscription", "create_timer", "publish",
              "get_subscriber_count", "get_publisher_count", "add_node"}

\* C8: an operation called with handle 0 touches no object, changes no state
\* and returns 0 / nothing.
C8_NullHandleNoOp ==
  (api_last.op \in HandleOps /\ api_last.h = NullHandle) =>
    /\ api_touched = {}
    /\ ~null_deref
    /\ ~api_changed
    /\ api_ret = 0

\* C9: after destroy_node(h) no operation given h accesses the destroyed node,
\* the spin_some(h) and stop_spin(h) an Executor calls for a listed node included.
C9_StaleHandleDetected == ~stale_access

\* C10: create_subscription / create_publisher with a type name that is not in
\* the registry returns 0, never reaches the node and changes nothing.
C10_UnregisteredTypeRejected ==
  (api_last.op \in {"create_subscription", "create_publisher"}
     /\ api_last.name \notin DOMAIN message_types) =>
    /\ api_ret = 0
    /\ api_touched = {}
    /\ ~api_changed

\* create_subscription on a live node, with a name the registry lacks while it
\* holds another one
C10_Witness ==
  /\ api_last.op = "create_subscription"
  /\ api_last.h \in live
  /\ api_last.name \notin DOMAIN message_types
  /\ DOMAIN message_types # {}
  /\ api_ret = 0

\* C11: the type registry only grows. No step removes a name or changes the
\* descriptor of a registered name; a call of rcl_like_wrapper_init adds
\* exactly the names it is given that were not registered, with the
\* descriptors it is given, so a name keeps the descriptor of the first call
\* that registered it; the same call made again changes nothing.
C11_RegistryAdditive ==
  /\ [](api_last.op = "rcl_like_wrapper_init" =>
          Registered(api_last.types) = message_types)
  /\ [][/\ \A n \in DOMAIN message_types :
             n \in DOMAIN message_types' /\ message_types'[n] = message_types[n]
        /\ (api_calls' # api_calls /\ api_last'.op = "rcl_like_wrapper_init") =>
             LET types == api_last'.types IN
               /\ DOMAIN message_types' = (DOMAIN message_types) \cup (DOMAIN types)
               /\ \A n \in (DOMAIN types) \ (DOMAIN message_types) :
                     message_types'[n] = types[n]
       ]_vars

\* a call has just offered another descriptor for a name an earlier call
\* registered
C11_Witness ==
  /\ api_last.op = "rcl_like_wrapper_init"
  /\ \E n \in DOMAIN api_last.types : message_types[n] # api_last.types[n]

\* C12: the process-wide stop flag starts false and, once true, is true in
\* every later state.
C12_FlagMonotonic ==
  /\ ~global_stop_flag
  /\ [][global_stop_flag => global_stop_flag']_vars

\* the flag was set while spin() ran, and spin() has returned since
C12_Witness == global_stop_flag /\ spin_pc = "returned"

\* C13: signal_handler always runs to completion, also when a second signal
\* is delivered on a thread whose handler for the first is still running: no
\* activation of the handler is stuck, and none ends the process.
C13_HandlerCompletes ==
  /\ ~sig_aborted
  /\ \A t \in Threads : \A i \in 1..Len(sig_frames[t]) :
        sig_frames[t][i].pc # "deadlocked"

\* C14: when Executor::stop() returns, running_ is false and stop_spin() has
\* been called on every node that was in the list when stop() was called,
\* whether spin() had been started or not.
C14_StopStopsEveryNode ==
  [][Stop => (~running_' /\ StopTargets \subseteq stop_req')]_vars

\* C15: Executor::stop() called twice in succession leaves the executor and
\* the nodes as one call does: stop() returns with running_ false, and stop()
\* called with running_ false changes neither the executor nor any node.
C15_StopIdempotent ==
  [][Stop => /\ ~running_'
             /\ ~running_ => UNCHANGED <<nodes_, running_, mutex_, live, stop_req,
                                          stale_access, null_deref, crashed>>
    ]_vars

\* stop() has stopped a running executor and its nodes; the next call finds
\* running_ false
C15_Witness ==
  /\ stop_called
  /\ ~running_
  /\ nodes_ # << >>
  /\ StopTargets \subseteq stop_req

\* number of occurrences of n in s
Count(s, n) == Cardinality({i \in 1..Len(s) : s[i] = n})

\* t is s without its occurrences of n, the other elements in their order
KeepsOthers(s, t, n) ==
  LET keep == {i \in 1..Len(s) : s[i] # n}
      nth(j) == CHOOSE i \in keep : Cardinality({k \in keep : k <= i}) = j
  IN  /\ Len(t) = Cardinality(keep)
      /\ \A j \in 1..Len(t) : t[j] = s[nth(j)]

C16_StopEndsSpin ==
  /\ [](rclw_pc = "returned" /\ node_ptr_ # NullHandle =>
          node_stop_requested /\ thread_pc = "none")
  /\ (rclw_pc \in {"poll", "stop_spin", "join"}
        /\ (rclw_node_stop_flag_ \/ global_stop_flag))
       ~> (rclw_pc = "returned")

\* stop() alone has ended a first spin() and a later one
C16_Witness ==
  /\ rclw_pc = "returned"
  /\ rclw_node_stop_flag_
  /\ ~global_stop_flag
  /\ n_spins >= 2

\* C17: Rate::sleep() called at "now". If now < next_time_, it sleeps until
\* next_time_, unchanged. Otherwise there is a smallest k >= 1 with
\* next_time_ + k * period_ > now, next_time_ is advanced by k periods, and it
\* sleeps until then. The instant slept until is later than now; next_time_ is
\* the construction time plus a positive multiple of the period, and never
\* goes back.
C17_CatchUp ==
  LET K == MaxTime + MaxPeriod + 1 IN
  /\ rate_pc # "unconstructed" =>
        \E m \in 1..K : next_time_ = ctor_time + m * period_
  /\ rate_pc \in {"loop", "sleep_until"} => next_time_ >= call_next
  /\ rate_pc = "loop" => \E k \in 1..K : call_next + k * period_ > now
  /\ rate_pc = "sleep_until" =>
        /\ next_time_ > now
        /\ IF now < call_next
             THEN next_time_ = call_next
             ELSE \E k \in 1..K : /\ next_time_ = call_next + k * period_
                                  /\ call_next + (k - 1) * period_ <= now

\* C19: every call of Rate::sleep() returns, whatever the period and the time
\* of the call.
C19_SleepTerminates ==
  (rate_pc \in {"loop", "sleep_until"}) ~> (rate_pc = "idle")

\* C20: invoke() entered with an empty buffer calls no user callback, leaves
\* the buffer empty, lets no exception out and returns having only logged the
\* error.
C20_EmptyInvokeOnlyReports ==
  [][(consumer_pc = "invoke" /\ message_ptr_buffer_ = << >> /\ consumer_pc' # "invoke") =>
       /\ consumer_pc' = "idle"
       /\ dispatched' = Append(dispatched, NoMsg)
       /\ message_ptr_buffer_' = << >>
       /\ escaped' = escaped
       /\ cb_failed' = cb_failed
    ]_vars

\* an invoke() that found the buffer empty has returned
C20_Witness ==
  /\ consumer_pc = "idle"
  /\ dispatched # << >>
  /\ dispatched[Len(dispatched)] = NoMsg
  /\ message_ptr_buffer_ = << >>
  /\ ~escaped

\* C21: the buffer holds at least as many messages as there are closures of
\* the subscription pending in the channel, and invoke() never takes its
\* empty-buffer branch.
C21_BufferCoversPending ==
  /\ Len(message_ptr_buffer_) >= channel_
  /\ \A k \in 1..Len(dispatched) : dispatched[k] # NoMsg

\* C22: the transport thread is never inside emplace_back() while the spinning
\* thread is inside erase() on the same vector.
C22_BufferAccessExclusive ==
  ~(listener_pc = "emplace_write" /\ consumer_pc = "erase_write")

====
